---------------------------- MODULE Spec2Model ----------------------------
(***************************************************************************)
(* Tool adapters of BenchExec for CBMC, ESBMC, Map2Check, 2LS and the      *)
(* Ultimate family: command-line construction (cmdline), capability        *)
(* negotiation (version and the cached helpers of UltimateTool) and result *)
(* classification (determine_result).                                      *)
(*                                                                         *)
(* A Python str of tool output is modelled as a sequence of atoms, each    *)
(* atom a TLA+ string standing for a run of characters; the markers the    *)
(* adapters look for are sequences of whole atoms, so that substring,      *)
(* prefix, suffix and equality tests on the text are the corresponding     *)
(* tests on atom sequences.  Command-line arguments are opaque strings.    *)
(***************************************************************************)
EXTENDS Integers, Sequences, FiniteSets, TLC

(***************************************************************************)
(* Python string primitives on atom sequences.                            *)
(***************************************************************************)
\* the value None, as an atom sequence no text equals
None == <<"$None">>

\* F applied to the value of e, computed once (a local variable of the code)
Strict(e, F(_)) ==
    CHOOSE r \in {F(x) : x \in {e}} : TRUE

\* characters removed by str.strip()
Whitespace == {" ", "\n"}

\* text[index:] for a 0-based index >= 0
Slice(text, index) ==
    SubSeq(text, index + 1, Len(text))

\* text[index:index+len(word)] == word
IsAt(text, word, index) ==
    /\ index + Len(word) <= Len(text)
    /\ SubSeq(text, index + 1, index + Len(word)) = word

\* str.find: the lowest 0-based index of word in text, -1 when absent
Find(text, word) ==
    IF \E i \in 0..Len(text) : IsAt(text, word, i)
    THEN CHOOSE i \in 0..Len(text) :
           /\ IsAt(text, word, i)
           /\ \A j \in 0..(i - 1) : ~IsAt(text, word, j)
    ELSE -1

\* word in text (substring test)
Contains(text, word) ==
    Find(text, word) # -1

\* str.startswith
StartsWith(text, word) ==
    IsAt(text, word, 0)

\* str.endswith
EndsWith(text, word) ==
    /\ Len(word) <= Len(text)
    /\ IsAt(text, word, Len(text) - Len(word))

RECURSIVE LStrip(_)
LStrip(text) ==
    IF text # <<>> /\ Head(text) \in Whitespace THEN LStrip(Tail(text)) ELSE text

RECURSIVE RStrip(_)
RStrip(text) ==
    IF text # <<>> /\ text[Len(text)] \in Whitespace
    THEN RStrip(SubSeq(text, 1, Len(text) - 1))
    ELSE text

\* str.strip()
Strip(text) ==
    RStrip(LStrip(text))

\* "\n".join(output)
RECURSIVE JoinLines(_)
JoinLines(output) ==
    IF output = <<>> THEN <<>>
    ELSE IF Len(output) = 1 THEN output[1]
    ELSE output[1] \o <<"\n">> \o JoinLines(Tail(output))

\* x in list
InList(x, list) ==
    \E i \in 1..Len(list) : list[i] = x

(***************************************************************************)
(* benchexec.result: the verdict strings the adapters return.             *)
(***************************************************************************)
RESULT_TRUE_PROP == <<"TRUE">>
RESULT_FALSE_REACH == <<"FALSE_REACH">>
RESULT_FALSE_DEREF == <<"FALSE_DEREF">>
RESULT_FALSE_FREE == <<"FALSE_FREE">>
RESULT_FALSE_MEMTRACK == <<"FALSE_MEMTRACK">>
RESULT_FALSE_MEMCLEANUP == <<"FALSE_MEMCLEANUP">>
RESULT_FALSE_OVERFLOW == <<"FALSE_OVERFLOW">>
RESULT_FALSE_TERMINATION == <<"FALSE_TERMINATION">>
RESULT_UNKNOWN == <<"UNKNOWN">>
RESULT_ERROR == <<"ERROR">>
RESULT_DONE == <<"DONE">>

\* the outcome of a call that raised exception e instead of returning
Raised(e) == <<"$raise", e>>

IsRaised(r) ==
    Len(r) = 2 /\ r[1] = "$raise"

(***************************************************************************)
(* ESBMC (esbmc.py)                                                        *)
(***************************************************************************)
\* Tool.allInText: the loop over words, index carried from word to word
RECURSIVE allInTextFrom(_, _, _)
allInTextFrom(words, text, index) ==
    IF words = <<>> THEN TRUE
    ELSE LET next == Find(Slice(text, index), Head(words))
         IN  IF next = -1 THEN FALSE
             ELSE allInTextFrom(Tail(words), text, next)

allInText(words, text) ==
    allInTextFrom(words, text, 0)

EsbmcScan(output) ==
    IF allInText(<< <<"FALSE", "_DEREF">> >>, output) THEN RESULT_FALSE_DEREF
    ELSE IF allInText(<< <<"FALSE", "_FREE">> >>, output) THEN RESULT_FALSE_FREE
    ELSE IF allInText(<< <<"FALSE", "_MEMTRACK">> >>, output) THEN RESULT_FALSE_MEMTRACK
    ELSE IF allInText(<< <<"FALSE", "_OVERFLOW">> >>, output) THEN RESULT_FALSE_OVERFLOW
    ELSE IF allInText(<< <<"FALSE", "_TERMINATION">> >>, output) THEN RESULT_FALSE_TERMINATION
    ELSE IF allInText(<< <<"FALSE">> >>, output) THEN RESULT_FALSE_REACH
    ELSE IF Contains(output, <<"TRUE">>) THEN RESULT_TRUE_PROP
    ELSE IF Contains(output, <<"DONE">>) THEN RESULT_DONE
    ELSE RESULT_UNKNOWN

Esbmc_determine_result(returncode, returnsignal, output, isTimeout) ==
    LET text == JoinLines(output)
        status == EsbmcScan(text)
    IN  IF status = RESULT_UNKNOWN
        THEN IF isTimeout THEN <<"TIMEOUT">>
             ELSE IF EndsWith(text, <<"error">>) \/ EndsWith(text, <<"error", "\n">>)
                  THEN <<"ERROR">>
                  ELSE status
        ELSE status

(***************************************************************************)
(* 2LS (two_ls.py)                                                         *)
(***************************************************************************)
\* the chain on the stripped last line, exit code 10
TwoLsLastLine(result_str) ==
    IF result_str = <<"FALSE", "(valid-memtrack)">> THEN RESULT_FALSE_MEMTRACK
    ELSE IF result_str = <<"FALSE", "(valid-deref)">> THEN RESULT_FALSE_DEREF
    ELSE IF result_str = <<"FALSE", "(valid-free)">> THEN RESULT_FALSE_FREE
    ELSE IF result_str = <<"FALSE", "(no-overflow)">> THEN RESULT_FALSE_OVERFLOW
    ELSE IF result_str = <<"FALSE", "(termination)">> THEN RESULT_FALSE_TERMINATION
    ELSE IF result_str = <<"FALSE", "(valid-memcleanup)">> THEN RESULT_FALSE_MEMCLEANUP
    ELSE RESULT_FALSE_REACH

TwoLs_determine_result(returncode, returnsignal, output, isTimeout) ==
    IF (returnsignal = 9 \/ returnsignal = 15) /\ isTimeout THEN <<"TIMEOUT">>
    ELSE IF returnsignal = 9 THEN <<"OUT OF MEMORY">>
    ELSE IF returnsignal # 0 THEN <<"ERROR(SIGNAL ", ToString(returnsignal), ")">>
    ELSE IF returncode = 0 THEN RESULT_TRUE_PROP
    ELSE IF returncode = 10
         THEN IF Len(output) > 0
              THEN TwoLsLastLine(Strip(output[Len(output)]))
              ELSE RESULT_FALSE_REACH
    ELSE RESULT_UNKNOWN

(***************************************************************************)
(* Map2Check (map2check.py)                                                *)
(***************************************************************************)
\* the branch for wrapper versions above 6
Map2CheckV7(output, isTimeout) ==
    IF EndsWith(output, <<"TRUE">>) THEN RESULT_TRUE_PROP
    ELSE IF Contains(output, <<"FALSE">>)
         THEN IF Contains(output, <<"FALSE", "_MEMTRACK">>) THEN RESULT_FALSE_MEMTRACK
              ELSE IF Contains(output, <<"FALSE", "_MEMCLEANUP">>) THEN RESULT_FALSE_MEMCLEANUP
              ELSE IF Contains(output, <<"FALSE", "_DEREF">>) THEN RESULT_FALSE_DEREF
              ELSE IF Contains(output, <<"FALSE", "_FREE">>) THEN RESULT_FALSE_FREE
              ELSE IF Contains(output, <<"FALSE", "_OVERFLOW">>) THEN RESULT_FALSE_OVERFLOW
              ELSE RESULT_FALSE_REACH
    ELSE IF EndsWith(output, <<"UNKNOWN">>) THEN RESULT_UNKNOWN
    ELSE IF isTimeout THEN <<"TIMEOUT">>
    ELSE <<"ERROR">>

\* the branch for wrapper version 6
Map2CheckV6(output, isTimeout) ==
    IF EndsWith(output, <<"TRUE">>) THEN RESULT_TRUE_PROP
    ELSE IF Contains(output, <<"FALSE">>)
         THEN IF Contains(output, <<"FALSE", "(valid-memtrack)">>) THEN RESULT_FALSE_MEMTRACK
              ELSE IF Contains(output, <<"FALSE", "(valid-deref)">>) THEN RESULT_FALSE_DEREF
              ELSE IF Contains(output, <<"FALSE", "(valid-free)">>) THEN RESULT_FALSE_FREE
              ELSE RESULT_UNKNOWN
    ELSE IF EndsWith(output, <<"UNKNOWN">>) THEN RESULT_UNKNOWN
    ELSE IF isTimeout THEN <<"TIMEOUT">>
    ELSE <<"ERROR">>

\* wrapper_version is what Tool._get_version() reports: 6 or 7
Map2Check_determine_result(wrapper_version, returncode, returnsignal, output, isTimeout) ==
    IF output = <<>> THEN RESULT_UNKNOWN
    ELSE LET last == Strip(output[Len(output)])
         IN  IF wrapper_version > 6 THEN Map2CheckV7(last, isTimeout)
             ELSE IF wrapper_version = 6 THEN Map2CheckV6(last, isTimeout)
             ELSE RESULT_UNKNOWN

(***************************************************************************)
(* Ultimate (ultimate.py): the two classifiers                            *)
(***************************************************************************)
triggers ==
    << <<"Reason: overapproximation of">>,
       <<"Reason: overapproximation of", " bitwiseAnd">>,
       <<"Reason: overapproximation of", " bitwiseOr">>,
       <<"Reason: overapproximation of", " bitwiseXor">>,
       <<"Reason: overapproximation of", " shiftLeft">>,
       <<"Reason: overapproximation of", " shiftRight">>,
       <<"Reason: overapproximation of", " bitwiseComplement">> >>

_contains_overapproximation_result(line) ==
    \E i \in 1..Len(triggers) : Find(line, triggers[i]) # -1

\* the body of the loop of _determine_result_without_propertyfile on one line:
\* the verdict returned on that line, None when the loop goes on
WithoutPropertyfileLine(line) ==
    IF Find(line, <<"ShortDescription: Unsupported Syntax">>) # -1
      THEN <<"ERROR: UNSUPPORTED SYNTAX">>
    ELSE IF Find(line, <<"ShortDescription: Incorrect Syntax">>) # -1
      THEN <<"ERROR: INCORRECT SYNTAX">>
    ELSE IF Find(line, <<"Type Error">>) # -1 THEN <<"ERROR: TYPE ERROR">>
    ELSE IF Find(line, <<"InvalidWitnessErrorResult">>) # -1
      THEN <<"ERROR: INVALID WITNESS FILE">>
    ELSE IF Find(line, <<"ExceptionOrErrorResult">>) # -1 THEN <<"ERROR: EXCEPTION">>
    ELSE IF _contains_overapproximation_result(line) THEN <<"UNKNOWN: OverapproxCex">>
    ELSE IF Find(line, <<"Found a nonterminating execution for the following lasso shaped sequence of statements">>) # -1
      THEN RESULT_FALSE_TERMINATION
    ELSE IF Find(line, <<"TerminationAnalysisResult: Termination proven">>) # -1
      THEN RESULT_TRUE_PROP
    ELSE IF Find(line, <<"execution that violates the LTL property">>) # -1
      THEN <<"FALSE(valid-ltl)">>
    ELSE IF Find(line, <<"Buchi Automizer proved that the LTL property">>) # -1
      THEN RESULT_TRUE_PROP
    ELSE IF Find(line, <<"Ultimate proved your program to be incorrect">>) # -1
      THEN RESULT_FALSE_REACH
    ELSE IF Find(line, <<"pointer dereference may fail">>) # -1 THEN RESULT_FALSE_DEREF
    ELSE IF Find(line, <<"array index can be out of bounds">>) # -1 THEN RESULT_FALSE_DEREF
    ELSE IF Find(line, <<"free of unallocated memory possible">>) # -1 THEN RESULT_FALSE_FREE
    ELSE IF Find(line, <<"not all allocated memory was freed">>) # -1
      THEN RESULT_FALSE_MEMTRACK
    ELSE IF Find(line, <<"overflow possible">>) # -1 THEN RESULT_FALSE_OVERFLOW
    ELSE IF \/ Find(line, <<"Ultimate proved your program to be correct">>) # -1
            \/ Find(line, <<"AllSpecificationsHoldResult">>) # -1
      THEN RESULT_TRUE_PROP
    ELSE IF Find(line, <<"TreeAutomizerUnsatResult">>) # -1 THEN <<"unsat">>
    ELSE IF \/ Find(line, <<"TreeAutomizerSatResult">>) # -1
            \/ Find(line, <<"AllSpecificationsHoldResult">>) # -1
      THEN <<"sat">>
    ELSE None

RECURSIVE _determine_result_without_propertyfile(_, _, _, _)
_determine_result_without_propertyfile(returncode, returnsignal, output, is_timeout) ==
    IF output = <<>> THEN RESULT_UNKNOWN
    ELSE LET v == WithoutPropertyfileLine(Head(output))
         IN  IF v # None THEN v
             ELSE _determine_result_without_propertyfile(
                      returncode, returnsignal, Tail(output), is_timeout)

\* the body of the loop of _determine_result_with_propertyfile on one line
WithPropertyfileLine(line) ==
    IF StartsWith(line, <<"FALSE", "(valid-free)">>) THEN RESULT_FALSE_FREE
    ELSE IF StartsWith(line, <<"FALSE", "(valid-deref)">>) THEN RESULT_FALSE_DEREF
    ELSE IF StartsWith(line, <<"FALSE", "(valid-memtrack)">>) THEN RESULT_FALSE_MEMTRACK
    ELSE IF StartsWith(line, <<"FALSE", "(valid-memcleanup)">>) THEN RESULT_FALSE_MEMCLEANUP
    ELSE IF StartsWith(line, <<"FALSE", "(TERM)">>) THEN RESULT_FALSE_TERMINATION
    ELSE IF StartsWith(line, <<"FALSE", "(OVERFLOW)">>) THEN RESULT_FALSE_OVERFLOW
    ELSE IF StartsWith(line, <<"FALSE">>) THEN RESULT_FALSE_REACH
    ELSE IF StartsWith(line, <<"TRUE">>) THEN RESULT_TRUE_PROP
    ELSE IF StartsWith(line, <<"UNKNOWN">>) THEN RESULT_UNKNOWN
    ELSE IF StartsWith(line, <<"ERROR">>)
         THEN IF StartsWith(line, <<"ERROR", ": INVALID WITNESS FILE">>)
              THEN RESULT_ERROR \o <<" (invalid witness file)">>
              ELSE RESULT_ERROR
    ELSE None

RECURSIVE _determine_result_with_propertyfile(_, _, _, _)
_determine_result_with_propertyfile(returncode, returnsignal, output, is_timeout) ==
    IF output = <<>> THEN RESULT_UNKNOWN
    ELSE LET v == WithPropertyfileLine(Head(output))
         IN  IF v # None THEN v
             ELSE _determine_result_with_propertyfile(
                      returncode, returnsignal, Tail(output), is_timeout)

\* UltimateTool.determine_result, reading the instance field _uses_propertyfile
Ultimate_determine_result(uses_pf, returncode, returnsignal, output, is_timeout) ==
    IF uses_pf
    THEN _determine_result_with_propertyfile(returncode, returnsignal, output, is_timeout)
    ELSE _determine_result_without_propertyfile(returncode, returnsignal, output, is_timeout)

(***************************************************************************)
(* CBMC (cbmc.py): the structured-document dialect.                        *)
(* The captured lines are sequences of XML tokens: start tags, end tags    *)
(* and character data, each one atom.                                      *)
(***************************************************************************)
\* start tags the documents use, with the attributes the adapter reads
XmlStartTags ==
    { [atom |-> "<cprover>", tag |-> "cprover", type |-> None, reason |-> None],
      [atom |-> "<cprover-status>", tag |-> "cprover-status", type |-> None, reason |-> None],
      [atom |-> "<goto_trace>", tag |-> "goto_trace", type |-> None, reason |-> None],
      [atom |-> "<failure>", tag |-> "failure", type |-> None, reason |-> None],
      [atom |-> "<failure reason=\"unwinding assertion loop 0\">", tag |-> "failure",
         type |-> None, reason |-> <<"unwinding assertion", " loop 0">>],
      [atom |-> "<failure reason=\"assertion x\">", tag |-> "failure",
         type |-> None, reason |-> <<"assertion x">>],
      [atom |-> "<reason>", tag |-> "reason", type |-> None, reason |-> None],
      [atom |-> "<message type=\"ERROR\">", tag |-> "message",
         type |-> <<"ERROR">>, reason |-> None],
      [atom |-> "<message type=\"STATUS-MESSAGE\">", tag |-> "message",
         type |-> <<"STATUS-MESSAGE">>, reason |-> None],
      [atom |-> "<text>", tag |-> "text", type |-> None, reason |-> None],
      [atom |-> "<emptyTag>", tag |-> "emptyTag", type |-> None, reason |-> None] }

\* end tags, with the element each one closes
XmlEndTags ==
    { [atom |-> "</cprover>", tag |-> "cprover"],
      [atom |-> "</cprover-status>", tag |-> "cprover-status"],
      [atom |-> "</goto_trace>", tag |-> "goto_trace"],
      [atom |-> "</failure>", tag |-> "failure"],
      [atom |-> "</reason>", tag |-> "reason"],
      [atom |-> "</message>", tag |-> "message"],
      [atom |-> "</text>", tag |-> "text"],
      [atom |-> "</emptyTag>", tag |-> "emptyTag"] }

\* markup no XML parser accepts: the empty tags, and a tag cut off by truncation
XmlBroken == {"<>", "</>", "<"}

IsStartTag(a) == \E t \in XmlStartTags : t.atom = a
IsEndTag(a) == \E t \in XmlEndTags : t.atom = a
StartTag(a) == CHOOSE t \in XmlStartTags : t.atom = a
EndTag(a) == CHOOSE t \in XmlEndTags : t.atom = a

\* s.replace("<>", "<emptyTag>").replace("</>", "</emptyTag>") on one line
sanitizeXML(line) ==
    [i \in 1..Len(line) |->
        IF line[i] = "<>" THEN "<emptyTag>"
        ELSE IF line[i] = "</>" THEN "</emptyTag>"
        ELSE line[i]]

\* the lines fed to the parser one after the other
RECURSIVE Concat(_)
Concat(lines) ==
    IF lines = <<>> THEN <<>> ELSE Head(lines) \o Concat(Tail(lines))

\* Parser state: the elements in document order (each with its parent's
\* index, 0 for the root, its text before the first child, and whether a
\* child was already seen), the stack of open elements, whether the root
\* element was closed, and whether the input is still well-formed.
XmlStart ==
    [ok |-> TRUE, nodes |-> <<>>, stack |-> <<>>, closed |-> FALSE]

XmlFeed(st, a) ==
    IF ~st.ok THEN st
    ELSE IF a \in XmlBroken THEN [st EXCEPT !.ok = FALSE]
    ELSE IF IsStartTag(a)
    THEN IF st.closed THEN [st EXCEPT !.ok = FALSE]
         ELSE LET t == StartTag(a)
                  parent == IF st.stack = <<>> THEN 0 ELSE st.stack[Len(st.stack)]
                  node == [tag |-> t.tag, type |-> t.type, reason |-> t.reason,
                           parent |-> parent, text |-> <<>>, sealed |-> FALSE]
                  marked == IF parent = 0 THEN st.nodes
                            ELSE [st.nodes EXCEPT ![parent].sealed = TRUE]
              IN  [st EXCEPT !.nodes = Append(marked, node),
                             !.stack = Append(st.stack, Len(st.nodes) + 1)]
    ELSE IF IsEndTag(a)
    THEN IF st.stack = <<>> \/ st.nodes[st.stack[Len(st.stack)]].tag # EndTag(a).tag
         THEN [st EXCEPT !.ok = FALSE]
         ELSE [st EXCEPT !.stack = SubSeq(st.stack, 1, Len(st.stack) - 1),
                         !.closed = (Len(st.stack) = 1)]
    ELSE \* character data
         IF st.stack = <<>>
         THEN IF a \in Whitespace THEN st ELSE [st EXCEPT !.ok = FALSE]
         ELSE LET top == st.stack[Len(st.stack)]
              IN  IF st.nodes[top].sealed THEN st
                  ELSE [st EXCEPT !.nodes[top].text = Append(st.nodes[top].text, a)]

\* the tokens toks[i], toks[i+1], ... fed to the parser in state st
RECURSIVE XmlFeedAll(_, _, _)
XmlFeedAll(st, toks, i) ==
    IF i > Len(toks) THEN st
    ELSE Strict(XmlFeed(st, toks[i]), LAMBDA next : XmlFeedAll(next, toks, i + 1))

\* ElementTree.fromstringlist: the element list, or ok = FALSE for a ParseError
fromstringlist(lines) ==
    Strict(Concat(lines), LAMBDA toks :
      Strict(XmlFeedAll(XmlStart, toks, 1), LAMBDA st :
        [ok |-> st.ok /\ st.closed, nodes |-> st.nodes]))

\* Element.find(tag): the first child of element p with that tag, 0 when none
XmlFind(nodes, p, tag) ==
    LET hits == {i \in 1..Len(nodes) : nodes[i].parent = p /\ nodes[i].tag = tag}
    IN  IF hits = {} THEN 0 ELSE CHOOSE i \in hits : \A j \in hits : i <= j

\* Element.findtext(tag): that child's text ("" when it has none), None when
\* there is no such child
XmlFindText(nodes, p, tag) ==
    LET c == XmlFind(nodes, p, tag)
    IN  IF c = 0 THEN None ELSE nodes[c].text

\* self.options before the first cmdline call: the attribute does not exist
Unset == <<"$unset">>

\* the except branch of parse_XML (any exception raised in the try block)
ParseXmlExcept(output, isTimeout) ==
    IF isTimeout THEN <<"TIMEOUT">>
    ELSE IF InList(<<"Minisat::OutOfMemoryException">>, output) THEN <<"OUT OF MEMORY">>
    ELSE <<"INVALID OUTPUT">>

\* status is None: the first message of type ERROR decides.  Element.getiterator
\* exists up to Python 3.8 only; without it the call raises AttributeError
\* inside the try block.
ParseXmlNoStatus(nodes, getiterator, output, isTimeout) ==
    IF ~getiterator THEN ParseXmlExcept(output, isTimeout)
    ELSE LET messages == {i \in 1..Len(nodes) :
                             nodes[i].tag = "message" /\ nodes[i].type = <<"ERROR">>}
         IN  IF messages # {}
             THEN LET first == CHOOSE i \in messages : \A j \in messages : i <= j
                      msg == XmlFindText(nodes, first, "text")
                  IN  IF msg = <<"Out of memory">> THEN <<"OUT OF MEMORY">>
                      ELSE IF msg = <<"SAT checker ran out of memory">>
                        THEN <<"OUT OF MEMORY">>
                      ELSE IF msg # None /\ msg # <<>>
                        THEN <<"ERROR (">> \o msg \o <<")">>
                      ELSE <<"ERROR">>
             ELSE <<"INVALID OUTPUT">>

\* status == "FAILURE"
ParseXmlFailure(nodes, output, returncode, isTimeout) ==
    LET goto_trace == XmlFind(nodes, 1, "goto_trace")
        failure == IF goto_trace = 0 THEN 0 ELSE XmlFind(nodes, goto_trace, "failure")
        text == IF failure = 0 THEN None ELSE XmlFindText(nodes, failure, "reason")
        reason == IF failure # 0 /\ (text = None \/ text = <<>>)
                  THEN nodes[failure].reason ELSE text
    IN  IF returncode # 10 THEN ParseXmlExcept(output, isTimeout)
        ELSE IF goto_trace = 0 \/ failure = 0 \/ reason = None
          THEN ParseXmlExcept(output, isTimeout)
        ELSE IF Contains(reason, <<"unwinding assertion">>) THEN RESULT_UNKNOWN
        ELSE RESULT_FALSE_REACH

\* status == "SUCCESS"
ParseXmlSuccess(options, output, returncode, isTimeout) ==
    IF returncode # 0 THEN ParseXmlExcept(output, isTimeout)
    ELSE IF InList("--unwinding-assertions", options) THEN RESULT_TRUE_PROP
    ELSE RESULT_UNKNOWN

\* the try block of parse_XML once the tree is built
ParseXmlTree(tree, options, getiterator, output, returncode, isTimeout) ==
    Strict(XmlFindText(tree.nodes, 1, "cprover-status"), LAMBDA status :
      IF status = None
        THEN ParseXmlNoStatus(tree.nodes, getiterator, output, isTimeout)
      ELSE IF status = <<"FAILURE">>
        THEN ParseXmlFailure(tree.nodes, output, returncode, isTimeout)
      ELSE IF status = <<"SUCCESS">>
        THEN ParseXmlSuccess(options, output, returncode, isTimeout)
      ELSE status)

\* Tool.parse_XML, reading the instance field options
parse_XML(options, getiterator, output, returncode, isTimeout) ==
    Strict(fromstringlist([i \in 1..Len(output) |-> sanitizeXML(output[i])]),
      LAMBDA tree :
        IF ~tree.ok THEN ParseXmlExcept(output, isTimeout)
        ELSE ParseXmlTree(tree, options, getiterator, output, returncode, isTimeout))

\* the SV-COMP branch of determine_result on the stripped last line
CbmcLastLine(result_str, output) ==
    IF result_str = <<"TRUE">> THEN RESULT_TRUE_PROP
    ELSE IF Contains(result_str, <<"FALSE">>)
         THEN IF result_str = <<"FALSE", "(valid-memtrack)">> THEN RESULT_FALSE_MEMTRACK
              ELSE IF result_str = <<"FALSE", "(valid-deref)">> THEN RESULT_FALSE_DEREF
              ELSE IF result_str = <<"FALSE", "(valid-free)">> THEN RESULT_FALSE_FREE
              ELSE IF result_str = <<"FALSE", "(no-overflow)">> THEN RESULT_FALSE_OVERFLOW
              ELSE IF result_str = <<"FALSE", "(valid-memcleanup)">>
                THEN RESULT_FALSE_MEMCLEANUP
              ELSE RESULT_FALSE_REACH
    ELSE IF InList(<<"UNKNOWN">>, output) THEN RESULT_UNKNOWN
    ELSE RESULT_ERROR

\* Tool.determine_result of CBMC, reading the instance field options
Cbmc_determine_result(options, getiterator, returncode, returnsignal, output, isTimeout) ==
    IF returnsignal = 0 /\ (returncode = 0 \/ returncode = 10)
    THEN IF options = Unset THEN Raised("AttributeError")
         ELSE IF InList("--xml-ui", options)
           THEN parse_XML(options, getiterator, output, returncode, isTimeout)
         ELSE IF Len(output) > 0
           THEN CbmcLastLine(Strip(output[Len(output)]), output)
         ELSE RESULT_ERROR
    ELSE IF returncode = 64 /\ InList(<<"Usage error!", "\n">>, output)
      THEN <<"INVALID ARGUMENTS">>
    ELSE IF returncode = 6 /\ InList(<<"Out of memory", "\n">>, output)
      THEN <<"OUT OF MEMORY">>
    ELSE IF returncode = 6 /\ InList(<<"SAT checker ran out of memory", "\n">>, output)
      THEN <<"OUT OF MEMORY">>
    ELSE RESULT_ERROR

(***************************************************************************)
(* Command lines of CBMC, ESBMC, Map2Check and 2LS.  An argument is an     *)
(* opaque string; NoneArg stands for Python's None.                        *)
(***************************************************************************)
NoneArg == "$None"

\* truth value of an argument: None and the empty string are false
Truthy(a) == a # NoneArg /\ a # ""

\* the options CBMC's cmdline stores in self.options
CbmcOptions(options, propertyfile) ==
    IF Truthy(propertyfile) THEN options \o <<"--propertyfile", propertyfile>>
    ELSE IF ~InList("--xml-ui", options) THEN options \o <<"--xml-ui">>
    ELSE options

Cbmc_cmdline(executable, options, tasks, propertyfile, rlimits) ==
    <<executable>> \o CbmcOptions(options, propertyfile) \o tasks

TwoLs_cmdline(executable, options, tasks, propertyfile, rlimits) ==
    <<executable>>
      \o (IF Truthy(propertyfile) THEN options \o <<"--propertyfile", propertyfile>>
          ELSE options)
      \o tasks

Esbmc_cmdline(executable, options, tasks, propertyfile, rlimits) ==
    IF Len(tasks) # 1 THEN Raised("AssertionError")
    ELSE <<executable>> \o <<"-p", propertyfile>> \o options \o <<tasks[1]>>

Map2Check_cmdline(wrapper_version, executable, options, sourcefiles, propertyfile, rlimits) ==
    IF Len(sourcefiles) # 1 THEN Raised("AssertionError")
    ELSE IF ~Truthy(propertyfile) THEN Raised("AssertionError")
    ELSE IF wrapper_version = 6
      THEN <<executable>> \o options \o <<"-c", propertyfile, sourcefiles[1]>>
    ELSE IF wrapper_version > 6
      THEN <<executable>> \o options \o <<"-p", propertyfile, sourcefiles[1]>>
    ELSE Raised("AssertionError")

(***************************************************************************)
(* Ultimate (ultimate.py): the environment of capability negotiation.      *)
(* The filesystem and the installed programs do not change during a run,   *)
(* so what a probe of an executable observes is fixed per executable.      *)
(***************************************************************************)
_OPTION_NO_WRAPPER == "--force-no-wrapper"
_SVCOMP17_VERSIONS == { <<"f7c3ed31">> }
_SVCOMP17_FORBIDDEN_FLAGS == {"--full-output", "--architecture"}
_LAUNCHER_JARS == <<"plugins/org.eclipse.equinox.launcher_1.3.100.v20150511-1540.jar">>
MEMLIMIT == "memlimit"

E_NEW == "/opt/ultimate/Ultimate.py"
E_OLD == "/opt/ultimate-old/Ultimate.py"
E_LEGACY == "/opt/ultimate-svcomp17/Ultimate.py"
E_NOJAR == "/opt/ultimate-nojar/Ultimate.py"
E_BROKEN == "/opt/ultimate-broken/Ultimate.py"
E_NOISY == "/opt/ultimate-noisy/Ultimate.py"
Executables == {E_NEW, E_OLD, E_LEGACY, E_NOJAR, E_BROKEN, E_NOISY}

\* os.path.dirname(executable)
Dirname(executable) ==
    CASE executable = E_NEW -> "/opt/ultimate"
      [] executable = E_OLD -> "/opt/ultimate-old"
      [] executable = E_LEGACY -> "/opt/ultimate-svcomp17"
      [] executable = E_NOJAR -> "/opt/ultimate-nojar"
      [] executable = E_BROKEN -> "/opt/ultimate-broken"
      [] executable = E_NOISY -> "/opt/ultimate-noisy"

\* os.path.join(a, b)
PathJoin(a, b) == a \o "/" \o b

\* os.path.isfile(path) for the launcher jars: the installations that ship one
IsFile(path) ==
    path \in {PathJoin(Dirname(e), _LAUNCHER_JARS[1]) : e \in {E_NEW, E_OLD, E_BROKEN, E_NOISY}}

\* self._version_from_tool(executable): what the wrapper script reports
_version_from_tool(executable) ==
    CASE executable = E_NEW -> <<"1dbac8bc">>
      [] executable = E_OLD -> <<"0fe0c2a1">>
      [] executable = E_LEGACY -> <<"f7c3ed31">>
      [] executable = E_NOJAR -> <<"1dbac8bc">>
      [] executable = E_BROKEN -> <<"1dbac8bc">>
      [] executable = E_NOISY -> <<"1dbac8bc">>

\* What the subprocess of _query_ultimate_version does for the command of
\* API generation api: whether it can be spawned, its exit code, whether it
\* wrote to stderr, and its stdout as lines.
ProbeRun(executable, api) ==
    CASE executable = E_NEW ->
           [spawned |-> TRUE, returncode |-> 0, stderr |-> FALSE,
            stdout |-> << <<"Starting">>, <<"Version is ", "0", ".", "1", ".", "24">> >>]
      [] executable = E_OLD /\ api = 2 ->
           [spawned |-> TRUE, returncode |-> 1, stderr |-> FALSE,
            stdout |-> << <<"Version is ", "0", ".", "1", ".", "23">> >>]
      [] executable = E_OLD /\ api # 2 ->
           [spawned |-> TRUE, returncode |-> 0, stderr |-> FALSE,
            stdout |-> << <<"Version is ", "0", ".", "1", ".", "23">> >>]
      [] executable = E_BROKEN /\ api = 2 ->
           [spawned |-> FALSE, returncode |-> 0, stderr |-> FALSE, stdout |-> <<>>]
      [] executable = E_BROKEN /\ api # 2 ->
           [spawned |-> TRUE, returncode |-> 0, stderr |-> FALSE,
            stdout |-> << <<"Usage: Ultimate">> >>]
      [] executable = E_NOISY /\ api = 2 ->
           [spawned |-> TRUE, returncode |-> 0, stderr |-> TRUE,
            stdout |-> << <<"Version is ", "0", ".", "1", ".", "25">> >>]
      [] executable = E_NOISY /\ api # 2 ->
           [spawned |-> TRUE, returncode |-> 0, stderr |-> FALSE,
            stdout |-> << <<"Starting">>, <<"Version is ", "0", ".", "1", ".", "25">> >>]
      [] OTHER ->
           [spawned |-> TRUE, returncode |-> 0, stderr |-> FALSE, stdout |-> <<>>]

\* _ULTIMATE_VERSION_REGEX.search(stdout): group 1 of the first line that
\* starts with "Version is ", None when no line does
RECURSIVE VersionRegexSearch(_)
VersionRegexSearch(stdout) ==
    IF stdout = <<>> THEN None
    ELSE IF StartsWith(Head(stdout), <<"Version is ">>) THEN Slice(Head(stdout), 1)
    ELSE VersionRegexSearch(Tail(stdout))

\* _query_ultimate_version(cmd, api): the version, "" when the probe fails
_query_ultimate_version(executable, api) ==
    LET process == ProbeRun(executable, api)
        version_ultimate_match == VersionRegexSearch(process.stdout)
    IN  IF ~process.spawned THEN <<>>
        ELSE IF process.stderr \/ process.returncode # 0 THEN <<>>
        ELSE IF version_ultimate_match = None THEN <<>>
        ELSE version_ultimate_match

\* the candidates of get_java, in order
JavaCandidates ==
    <<"java", "/usr/bin/java", "/opt/oracle-jdk-bin-1.8.0.202/bin/java",
      "/usr/lib/jvm/java-8-openjdk-amd64/bin/java">>

\* The machines considered: per candidate, what which() resolves it to
\* (NoneArg when it is not an executable file), whether it can be spawned and
\* what "-version" prints.
JavaAbsent == [which |-> NoneArg, spawned |-> FALSE, stdout |-> <<>>]
Java8At(path) ==
    [which |-> path, spawned |-> TRUE, stdout |-> <<"openjdk version \"", "1.8", ".0_292\"">>]
Java11At(path) ==
    [which |-> path, spawned |-> TRUE, stdout |-> <<"openjdk version \"11.0.2\"">>]
StandardJava ==
    <<Java8At("/usr/bin/java"), Java8At("/usr/bin/java"), JavaAbsent, JavaAbsent>>
JavaEnvs ==
    { StandardJava,
      <<Java11At("/usr/local/bin/java"), Java11At("/usr/bin/java"), JavaAbsent,
        Java8At("/usr/lib/jvm/java-8-openjdk-amd64/bin/java")>>,
      <<JavaAbsent,
        [which |-> "/usr/bin/java", spawned |-> FALSE, stdout |-> <<>>],
        [which |-> "/opt/oracle-jdk-bin-1.8.0.202/bin/java", spawned |-> TRUE,
         stdout |-> <<" ">>],
        JavaAbsent>> }

(***************************************************************************)
(* Ultimate: capability negotiation.  The operators below take the         *)
(* adapter's negotiation state ns = [api, version, java, probes] and       *)
(* return it updated together with the value returned (val) and the       *)
(* exception raised (exc, "" when the call returns).  ns.version and       *)
(* ns.java are the                                                         *)
(* lru_cache of version(executable) and of get_java(); ns.probes lists the *)
(* subprocesses the current call has run.                                  *)
(* lru_cache stores a value only when the call returns.  The caches of     *)
(* _get_current_launcher_jar, _is_svcomp17_version and                     *)
(* _requires_ultimate_data hold values that are functions of the unchanged *)
(* filesystem and of version(executable): recomputing them gives the same  *)
(* value and runs no subprocess, so they carry no state of their own here. *)
(***************************************************************************)
\* self.api before the first negotiation: __init__ does not set the attribute
ApiUnset == -1

\* a call that returns v, and one that raises e, in negotiation state ns
Return(ns, v) == [ns |-> ns, val |-> v, exc |-> ""]
Raise(ns, e) == [ns |-> ns, val |-> NoneArg, exc |-> e]

\* the statements after a call m: skipped when m raised (the exception
\* propagates), F of m's outcome otherwise
Then(m, F(_)) ==
    Strict(m, LAMBDA x : IF x.exc # "" THEN x ELSE F(x))

\* the loop of get_java from candidate i on, having run the subprocesses ran:
\* the path found (NoneArg when the candidates are exhausted) and the
\* subprocesses run
RECURSIVE JavaScan(_, _, _)
JavaScan(jenv, i, ran) ==
    IF i > Len(JavaCandidates) THEN [val |-> NoneArg, probes |-> ran]
    ELSE IF jenv[i].which = NoneArg THEN JavaScan(jenv, i + 1, ran)
    ELSE IF jenv[i].spawned /\ Contains(Strip(jenv[i].stdout), <<"1.8">>)
      THEN [val |-> jenv[i].which,
            probes |-> Append(ran, <<"java -version", jenv[i].which>>)]
    ELSE JavaScan(jenv, i + 1, Append(ran, <<"java -version", jenv[i].which>>))

\* get_java(), cached by lru_cache(maxsize=1)
get_java(ns, jenv) ==
    IF ns.java # NoneArg THEN Return(ns, ns.java)
    ELSE Strict(JavaScan(jenv, 1, ns.probes), LAMBDA scan :
           IF scan.val = NoneArg
           THEN Raise([ns EXCEPT !.probes = scan.probes], "BenchExecException")
           ELSE Return([ns EXCEPT !.probes = scan.probes, !.java = scan.val], scan.val))

\* the loop of _get_current_launcher_jar over _LAUNCHER_JARS from index i on:
\* the jar found, NoneArg when the loop ends without one
RECURSIVE LauncherJarFrom(_, _)
LauncherJarFrom(executable, i) ==
    IF i > Len(_LAUNCHER_JARS) THEN NoneArg
    ELSE IF IsFile(PathJoin(Dirname(executable), _LAUNCHER_JARS[i]))
      THEN PathJoin(Dirname(executable), _LAUNCHER_JARS[i])
    ELSE LauncherJarFrom(executable, i + 1)

_get_current_launcher_jar(ns, executable) ==
    Strict(LauncherJarFrom(executable, 1), LAMBDA launcher_jar :
      IF launcher_jar = NoneArg THEN Raise(ns, "FileNotFoundError")
      ELSE Return(ns, launcher_jar))

\* self.api and the subprocess list after the query of generation api
Queried(ns, api) ==
    [ns EXCEPT !.api = api,
               !.probes = Append(@, <<"ultimate --version", ToString(api)>>)]

\* the loop of _ultimate_version giving up after the first failed query
\* instead of going on to the next older generation
UltimateVersionLoopFirstOnly(ns, executable, api) ==
    IF api = 0
    THEN Raise([ns EXCEPT !.api = 0], "BenchExecException")
    ELSE Strict(_query_ultimate_version(executable, api), LAMBDA v :
           IF v # <<>> THEN Return(Queried(ns, api), v)
           ELSE Raise([Queried(ns, api) EXCEPT !.api = 0], "BenchExecException"))

\* the loop of _ultimate_version over cmds, at generation api (2, then 1):
\* self.api is decremented after each failed query
RECURSIVE UltimateVersionLoop(_, _, _)
UltimateVersionLoop(ns, executable, api) ==
    IF api = 0
    THEN Raise([ns EXCEPT !.api = 0], "BenchExecException")
    ELSE Strict(_query_ultimate_version(executable, api), LAMBDA v :
           IF v # <<>> THEN Return(Queried(ns, api), v)
           ELSE Strict(Queried(ns, api), LAMBDA ran :
                  UltimateVersionLoop(ran, executable, api - 1)))

\* the number of commands _ultimate_version builds (len(cmds))
NumApis == 2

_ultimate_version(ns, jenv, executable) ==
    Then(_get_current_launcher_jar(ns, executable), LAMBDA launcher_jar :
      Then(get_java(launcher_jar.ns, jenv), LAMBDA java :
        UltimateVersionLoop(java.ns, executable, NumApis)))

\* the subprocess list after _version_from_tool(executable)
WrapperQueried(ns, executable) ==
    [ns EXCEPT !.probes = Append(@, <<"wrapper --version", executable>>)]

\* version(executable) without its lru_cache: every call negotiates anew
versionUncached(ns, jenv, executable) ==
    IF _version_from_tool(executable) \in _SVCOMP17_VERSIONS
      THEN Return([WrapperQueried(ns, executable) EXCEPT
                      !.version[executable] = _version_from_tool(executable)],
                  _version_from_tool(executable))
    ELSE Then(_ultimate_version(WrapperQueried(ns, executable), jenv, executable),
           LAMBDA ultimate_version :
             Strict(ultimate_version.val \o <<"-">> \o _version_from_tool(executable),
               LAMBDA full :
                 Return([ultimate_version.ns EXCEPT !.version[executable] = full], full)))

\* version(executable), cached by lru_cache
version(ns, jenv, executable) ==
    IF ns.version[executable] # None THEN Return(ns, ns.version[executable])
    ELSE IF _version_from_tool(executable) \in _SVCOMP17_VERSIONS
      THEN Return([WrapperQueried(ns, executable) EXCEPT
                      !.version[executable] = _version_from_tool(executable)],
                  _version_from_tool(executable))
    ELSE Then(_ultimate_version(WrapperQueried(ns, executable), jenv, executable),
           LAMBDA ultimate_version :
             Strict(ultimate_version.val \o <<"-">> \o _version_from_tool(executable),
               LAMBDA full :
                 Return([ultimate_version.ns EXCEPT !.version[executable] = full], full)))

_is_svcomp17_version(ns, jenv, executable) ==
    Then(version(ns, jenv, executable), LAMBDA v :
      Return(v.ns, v.val \in _SVCOMP17_VERSIONS))

\* str.split(sep) on an atom sequence: the list of pieces
RECURSIVE Split(_, _)
Split(text, sep) ==
    Strict(Find(text, <<sep>>), LAMBDA i :
      IF i = -1 THEN <<text>>
      ELSE Strict(Slice(text, i + 1), LAMBDA rest :
             <<SubSeq(text, 1, i)>> \o Split(rest, sep)))

\* the decimal numerals the version components use, with their values
Numerals ==
    { <<ToString(n), n>> : n \in 0..99 }

\* int(s) is defined on a numeral; on anything else it raises ValueError
IsNumeral(piece) ==
    Len(piece) = 1 /\ \E n \in Numerals : n[1] = piece[1]

int(piece) ==
    (CHOOSE n \in Numerals : n[1] = piece[1])[2]

\* the body of _requires_ultimate_data below the legacy test, on the version
\* string: TRUE or FALSE, or the exception raised by unpacking and int()
RequiresDataOf(v) ==
    Strict(Split(v, "-"), LAMBDA halves :
      IF Len(halves) # 2 THEN [val |-> FALSE, exc |-> "ValueError"]
      ELSE Strict(Split(halves[1], "."), LAMBDA parts :
        IF Len(parts) # 3 THEN [val |-> FALSE, exc |-> "ValueError"]
        ELSE IF \E k \in 1..3 : ~IsNumeral(parts[k])
          THEN [val |-> FALSE, exc |-> "ValueError"]
        ELSE [val |-> ~(int(parts[1]) = 0 /\ int(parts[2]) < 2 /\ int(parts[3]) < 24),
              exc |-> ""]))

_requires_ultimate_data(ns, jenv, executable) ==
    Then(_is_svcomp17_version(ns, jenv, executable), LAMBDA legacy :
      IF legacy.val THEN Return(legacy.ns, FALSE)
      ELSE Then(version(legacy.ns, jenv, executable), LAMBDA v :
             Strict(RequiresDataOf(v.val), LAMBDA r :
               IF r.exc # "" THEN Raise(v.ns, r.exc) ELSE Return(v.ns, r.val))))

(***************************************************************************)
(* Ultimate: cmdline.                                                      *)
(***************************************************************************)
\* list.remove(x): the list without the first occurrence of x
RECURSIVE Remove(_, _)
Remove(list, x) ==
    IF list = <<>> THEN <<>>
    ELSE IF Head(list) = x THEN Tail(list)
    ELSE <<Head(list)>> \o Remove(Tail(list), x)

\* [e for e in list if e not in banned]
RECURSIVE Without(_, _)
Without(list, banned) ==
    IF list = <<>> THEN <<>>
    ELSE IF Head(list) \in banned THEN Without(Tail(list), banned)
    ELSE <<Head(list)>> \o Without(Tail(list), banned)

\* all(cmdline): no element is None or the empty string
All(cmdline) ==
    \A i \in 1..Len(cmdline) : Truthy(cmdline[i])

\* __assert_cmdline followed by return cmdline
AssertCmdline(ns, cmdline) ==
    IF All(cmdline) THEN Return(ns, cmdline) ELSE Raise(ns, "AssertionError")

\* rlimits.get(MEMLIMIT, None); 0 stands for None, both are false
MemBytes(rlimits) ==
    IF MEMLIMIT \in DOMAIN rlimits THEN rlimits[MEMLIMIT] ELSE 0

\* the data-directory arguments of the direct mode, decided by
\* _requires_ultimate_data, the options and self.api
DataArgs(requires_data, options, api, executable) ==
    LET data_dir == PathJoin(Dirname(executable), "data")
    IN  IF requires_data
        THEN IF ~InList("-ultimatedata", options) /\ ~InList("-data", options)
             THEN IF api = 2
                  THEN [val |-> <<"-data", "@noDefault", "-ultimatedata", data_dir>>,
                        exc |-> ""]
                  ELSE IF api = 1 THEN [val |-> <<>>, exc |-> "ValueError"]
                  ELSE [val |-> <<>>, exc |-> ""]
             ELSE IF InList("-ultimatedata", options) /\ ~InList("-data", options)
             THEN IF api = 2 THEN [val |-> <<"-data", "@noDefault">>, exc |-> ""]
                  ELSE IF api = 1 THEN [val |-> <<>>, exc |-> "ValueError"]
                  ELSE [val |-> <<>>, exc |-> ""]
             ELSE [val |-> <<>>, exc |-> ""]
        ELSE IF ~InList("-data", options) /\ (api = 2 \/ api = 1)
             THEN [val |-> <<"-data", data_dir>>, exc |-> ""]
             ELSE [val |-> <<>>, exc |-> ""]

\* the legacy competition grammar (lines 213-228)
CmdlineSvcomp17(ns, executable, options, tasks, propertyfile) ==
    IF ~Truthy(propertyfile) THEN Raise(ns, "AssertionError")
    ELSE AssertCmdline(ns,
             <<executable, propertyfile>>
               \o Without(options, _SVCOMP17_FORBIDDEN_FLAGS)
               \o <<"--full-output">> \o tasks)

\* the wrapper grammar (lines 230-240)
CmdlineWrapper(ns, executable, options, tasks, propertyfile) ==
    AssertCmdline(ns,
        <<executable, "--spec", propertyfile>>
          \o (IF tasks # <<>> THEN <<"--file">> \o tasks ELSE <<>>)
          \o options)

\* the vector of the direct grammar, assembled from its parts
DirectVector(java, ea, mem_bytes, launcher_jar, data, options, tasks) ==
    <<java>>
      \o (IF ea THEN <<"-ea">> ELSE <<>>)
      \o (IF mem_bytes # 0 THEN <<"-Xmx" \o ToString(mem_bytes)>> ELSE <<>>)
      \o <<"-Xss4m">>
      \o <<"-jar", launcher_jar>>
      \o data
      \o options
      \o (IF tasks # <<>> THEN <<"-i">> \o tasks ELSE <<>>)

\* the direct grammar (lines 243-298); options is the list after the
\* removal of -ea
CmdlineDirectFrom(ns, jenv, executable, ea, options, tasks, rlimits) ==
    Then(get_java(ns, jenv), LAMBDA java :
      Then(_get_current_launcher_jar(java.ns, executable), LAMBDA launcher_jar :
        Then(_requires_ultimate_data(launcher_jar.ns, jenv, executable), LAMBDA req :
          Strict(DataArgs(req.val, options, req.ns.api, executable), LAMBDA data :
            IF data.exc # "" THEN Raise(req.ns, data.exc)
            ELSE AssertCmdline(req.ns,
                     DirectVector(java.val, ea, MemBytes(rlimits), launcher_jar.val,
                                  data.val, options, tasks))))))

CmdlineDirect(ns, jenv, executable, options, tasks, rlimits) ==
    IF InList("-ea", options)
    THEN CmdlineDirectFrom(ns, jenv, executable, TRUE, Without(options, {"-ea"}),
                           tasks, rlimits)
    ELSE CmdlineDirectFrom(ns, jenv, executable, FALSE, options, tasks, rlimits)

\* the grammar cmdline selects once --force-no-wrapper is handled:
\* uses_pf is self._uses_propertyfile, pf the property file still in effect
CmdlineMode(ns, jenv, executable, options, tasks, pf, uses_pf, rlimits) ==
    Then(_is_svcomp17_version(ns, jenv, executable), LAMBDA legacy :
      IF legacy.val
        THEN CmdlineSvcomp17(legacy.ns, executable, options, tasks, pf)
      ELSE IF uses_pf
        THEN CmdlineWrapper(legacy.ns, executable, options, tasks, pf)
      ELSE IF InList("-tc", options) \/ InList("--toolchain", options)
        THEN CmdlineDirect(legacy.ns, jenv, executable, options, tasks, rlimits)
      ELSE Raise(legacy.ns, "UnsupportedFeatureException"))

\* what a cmdline call leaves behind besides its outcome r: the field
\* self._uses_propertyfile and the caller's options list
Written(r, uses_pf, options) ==
    [ns |-> r.ns, val |-> r.val, exc |-> r.exc,
     uses_propertyfile |-> uses_pf, options |-> options]

\* UltimateTool.cmdline.  Besides what the call returns or raises (val, exc)
\* and the negotiation state (ns), the result carries the two other things
\* the call writes: self._uses_propertyfile and the caller's options list,
\* from which the first --force-no-wrapper is removed in place.
Ultimate_cmdline(ns, jenv, executable, options, tasks, propertyfile, rlimits) ==
    IF InList(_OPTION_NO_WRAPPER, options)
    THEN Strict(Remove(options, _OPTION_NO_WRAPPER), LAMBDA opts :
           Strict(CmdlineMode(ns, jenv, executable, opts, tasks, NoneArg, FALSE, rlimits),
             LAMBDA r : Written(r, FALSE, opts)))
    ELSE Strict(CmdlineMode(ns, jenv, executable, options, tasks, propertyfile,
                            propertyfile # NoneArg, rlimits),
           LAMBDA r : Written(r, propertyfile # NoneArg, options))

(***************************************************************************)
(* The adapter instance the harness holds, and the calls made on it.       *)
(***************************************************************************)
VARIABLES
    tool,                    \* the class of the instance
    self_options,            \* CBMC: self.options, Unset before the first cmdline
    self_uses_propertyfile,  \* Ultimate: self._uses_propertyfile
    self_api,                \* Ultimate: self.api, ApiUnset before a negotiation
    version_cache,           \* Ultimate: lru_cache of version(executable)
    java_cache,              \* Ultimate: lru_cache of get_java()
    java_env,                \* the Java installations of the machine
    getiterator,             \* whether ElementTree's Element has getiterator
    wrapper_version,         \* Map2Check: what _get_version() reports
    ctx,                     \* per run of the harness: the request cmdline built
    ret                      \* the last call: its arguments and its outcome

vars ==
    <<tool, self_options, self_uses_propertyfile, self_api, version_cache,
      java_cache, java_env, getiterator, wrapper_version, ctx, ret>>

\* what never changes after construction
env == <<tool, java_env, getiterator, wrapper_version>>

\* the fields and caches of an Ultimate instance
ultimate == <<self_uses_propertyfile, self_api, version_cache, java_cache>>

Tools == {"cbmc", "esbmc", "map2check", "two_ls", "ultimate"}

\* the runs the harness has in flight at a time
MaxInv == 2
Invocations == 1..MaxInv

\* no command line was built for the run yet
NoCtx == [options |-> <<>>, propertyfile |-> NoneArg, built |-> FALSE]

\* the negotiation state of the instance at the start of a call
NegState ==
    [api |-> self_api, version |-> version_cache, java |-> java_cache, probes |-> <<>>]

\* the outcome of a call as one value: what it returned, or Raised(exception)
Outcome(r) ==
    IF r.exc # "" THEN Raised(r.exc) ELSE r.val

\* the state after __init__ of an instance of class t, on one of the
\* machines jenvs
Constructed(t, jenvs) ==
    /\ tool = t
    /\ self_options = Unset
    /\ self_uses_propertyfile = FALSE
    /\ self_api = ApiUnset
    /\ version_cache = [e \in Executables |-> None]
    /\ java_cache = NoneArg
    /\ java_env \in (IF t = "ultimate" THEN jenvs ELSE {StandardJava})
    /\ getiterator \in (IF t = "cbmc" THEN BOOLEAN ELSE {TRUE})
    /\ wrapper_version \in (IF t = "map2check" THEN {6, 7} ELSE {7})
    /\ ctx = [i \in Invocations |-> NoCtx]
    /\ ret = [op |-> "__init__"]

Init ==
    \E t \in Tools : Constructed(t, {StandardJava})

\* the record of a cmdline call
CmdlineCall(inv, executable, options, tasks, propertyfile, rlimits, result, options_after, probes) ==
    [op |-> "cmdline", inv |-> inv, executable |-> executable, options |-> options,
     tasks |-> tasks, propertyfile |-> propertyfile, rlimits |-> rlimits,
     result |-> result, options_after |-> options_after, probes |-> probes]

\* the request of run inv, kept by the harness once cmdline returned a vector
Built(inv, options, propertyfile, result) ==
    IF IsRaised(result) THEN ctx
    ELSE [ctx EXCEPT ![inv] =
            [options |-> options, propertyfile |-> propertyfile, built |-> TRUE]]

CbmcCmdline(inv, executable, options, tasks, propertyfile, rlimits) ==
    /\ tool = "cbmc"
    /\ self_options' = CbmcOptions(options, propertyfile)
    /\ \E result \in {Cbmc_cmdline(executable, options, tasks, propertyfile, rlimits)} :
          /\ ctx' = Built(inv, options, propertyfile, result)
          /\ ret' = CmdlineCall(inv, executable, options, tasks, propertyfile, rlimits,
                                result, options, <<>>)
    /\ UNCHANGED <<env, ultimate>>

TwoLsCmdline(inv, executable, options, tasks, propertyfile, rlimits) ==
    /\ tool = "two_ls"
    /\ \E result \in {TwoLs_cmdline(executable, options, tasks, propertyfile, rlimits)} :
          /\ ctx' = Built(inv, options, propertyfile, result)
          /\ ret' = CmdlineCall(inv, executable, options, tasks, propertyfile, rlimits,
                                result, options, <<>>)
    /\ UNCHANGED <<env, ultimate, self_options>>

EsbmcCmdline(inv, executable, options, tasks, propertyfile, rlimits) ==
    /\ tool = "esbmc"
    /\ \E result \in {Esbmc_cmdline(executable, options, tasks, propertyfile, rlimits)} :
          /\ ctx' = Built(inv, options, propertyfile, result)
          /\ ret' = CmdlineCall(inv, executable, options, tasks, propertyfile, rlimits,
                                result, options, <<>>)
    /\ UNCHANGED <<env, ultimate, self_options>>

Map2CheckCmdline(inv, executable, options, tasks, propertyfile, rlimits) ==
    /\ tool = "map2check"
    /\ \E result \in {Map2Check_cmdline(wrapper_version, executable, options, tasks, propertyfile, rlimits)} :
          /\ ctx' = Built(inv, options, propertyfile, result)
          /\ ret' = CmdlineCall(inv, executable, options, tasks, propertyfile, rlimits,
                                result, options, <<>>)
    /\ UNCHANGED <<env, ultimate, self_options>>

UltimateCmdline(inv, executable, options, tasks, propertyfile, rlimits) ==
    /\ tool = "ultimate"
    /\ \E r \in {Ultimate_cmdline(NegState, java_env, executable, options, tasks, propertyfile, rlimits)} :
          /\ self_uses_propertyfile' = r.uses_propertyfile
          /\ self_api' = r.ns.api
          /\ version_cache' = r.ns.version
          /\ java_cache' = r.ns.java
          /\ ctx' = Built(inv, options, propertyfile, Outcome(r))
          /\ ret' = CmdlineCall(inv, executable, options, tasks, propertyfile, rlimits,
                                Outcome(r), r.options, r.ns.probes)
    /\ UNCHANGED <<env, self_options>>

\* UltimateTool.version(executable), called by the harness
UltimateVersion(executable) ==
    /\ tool = "ultimate"
    /\ \E r \in {version(NegState, java_env, executable)} :
          /\ self_api' = r.ns.api
          /\ version_cache' = r.ns.version
          /\ java_cache' = r.ns.java
          /\ ret' = [op |-> "version", executable |-> executable,
                     result |-> Outcome(r), probes |-> r.ns.probes]
    /\ UNCHANGED <<env, self_options, self_uses_propertyfile, ctx>>

\* the record of a determine_result call for run inv
ResultCall(inv, returncode, returnsignal, output, isTimeout, result) ==
    [op |-> "determine_result", inv |-> inv, returncode |-> returncode,
     returnsignal |-> returnsignal, output |-> output, isTimeout |-> isTimeout,
     result |-> result]

CbmcDetermineResult(inv, returncode, returnsignal, output, isTimeout) ==
    /\ tool = "cbmc"
    /\ ret' = ResultCall(inv, returncode, returnsignal, output, isTimeout,
                  Cbmc_determine_result(self_options, getiterator, returncode,
                                        returnsignal, output, isTimeout))
    /\ UNCHANGED <<env, ultimate, self_options, ctx>>

EsbmcDetermineResult(inv, returncode, returnsignal, output, isTimeout) ==
    /\ tool = "esbmc"
    /\ ret' = ResultCall(inv, returncode, returnsignal, output, isTimeout,
                  Esbmc_determine_result(returncode, returnsignal, output, isTimeout))
    /\ UNCHANGED <<env, ultimate, self_options, ctx>>

\* Tool.allInText of ESBMC, called on its own
EsbmcAllInText(words, text) ==
    /\ tool = "esbmc"
    /\ ret' = [op |-> "allInText", words |-> words, text |-> text,
               result |-> allInText(words, text)]
    /\ UNCHANGED <<env, ultimate, self_options, ctx>>

Map2CheckDetermineResult(inv, returncode, returnsignal, output, isTimeout) ==
    /\ tool = "map2check"
    /\ ret' = ResultCall(inv, returncode, returnsignal, output, isTimeout,
                  Map2Check_determine_result(wrapper_version, returncode, returnsignal,
                                             output, isTimeout))
    /\ UNCHANGED <<env, ultimate, self_options, ctx>>

TwoLsDetermineResult(inv, returncode, returnsignal, output, isTimeout) ==
    /\ tool = "two_ls"
    /\ ret' = ResultCall(inv, returncode, returnsignal, output, isTimeout,
                  TwoLs_determine_result(returncode, returnsignal, output, isTimeout))
    /\ UNCHANGED <<env, ultimate, self_options, ctx>>

UltimateDetermineResult(inv, returncode, returnsignal, output, isTimeout) ==
    /\ tool = "ultimate"
    /\ ret' = ResultCall(inv, returncode, returnsignal, output, isTimeout,
                  Ultimate_determine_result(self_uses_propertyfile, returncode,
                                            returnsignal, output, isTimeout))
    /\ UNCHANGED <<env, ultimate, self_options, ctx>>

(***************************************************************************)
(* Spec: one adapter instance serving several runs of the harness, whose   *)
(* cmdline and determine_result calls interleave.                          *)
(***************************************************************************)
\* the requests of the runs
RunExecutables == {E_NEW, E_NOJAR}
RunOptions == { <<>>, <<"--unwinding-assertions">>, <<_OPTION_NO_WRAPPER>> }
RunTasks == { <<"a.c">> }
RunPropertyfiles == {NoneArg, "p.prp"}
NoLimits == [k \in {} |-> 0]
RunLimits == { NoLimits }

\* documents CBMC prints with --xml-ui, as captured lines
DocSuccess ==
    << <<"<cprover>", "\n">>,
       <<"<cprover-status>", "SUCCESS", "</cprover-status>", "\n">>,
       <<"</cprover>", "\n">> >>
DocUnwinding ==
    << <<"<cprover>", "<goto_trace>",
         "<failure reason=\"unwinding assertion loop 0\">", "</failure>",
         "</goto_trace>", "\n">>,
       <<"<cprover-status>", "FAILURE", "</cprover-status>", "</cprover>", "\n">> >>

\* the outcomes of the runs
RunCodes == {0, 10}
RunSignals == {0}
RunOutputs ==
    { <<>>,
      << <<"TRUE">> >>,
      << <<"FALSE", "(valid-free)">> >>,
      << <<"Ultimate proved your program to be incorrect">> >>,
      DocSuccess,
      DocUnwinding }
RunTimeouts == {FALSE}

Cmdline(inv, executable, options, tasks, propertyfile, rlimits) ==
    \/ CbmcCmdline(inv, executable, options, tasks, propertyfile, rlimits)
    \/ EsbmcCmdline(inv, executable, options, tasks, propertyfile, rlimits)
    \/ Map2CheckCmdline(inv, executable, options, tasks, propertyfile, rlimits)
    \/ TwoLsCmdline(inv, executable, options, tasks, propertyfile, rlimits)
    \/ UltimateCmdline(inv, executable, options, tasks, propertyfile, rlimits)

DetermineResult(inv, returncode, returnsignal, output, isTimeout) ==
    \/ CbmcDetermineResult(inv, returncode, returnsignal, output, isTimeout)
    \/ EsbmcDetermineResult(inv, returncode, returnsignal, output, isTimeout)
    \/ Map2CheckDetermineResult(inv, returncode, returnsignal, output, isTimeout)
    \/ TwoLsDetermineResult(inv, returncode, returnsignal, output, isTimeout)
    \/ UltimateDetermineResult(inv, returncode, returnsignal, output, isTimeout)

RunCmdline ==
    \E inv \in Invocations, executable \in RunExecutables, options \in RunOptions,
       tasks \in RunTasks, propertyfile \in RunPropertyfiles, rlimits \in RunLimits :
        Cmdline(inv, executable, options, tasks, propertyfile, rlimits)

RunDetermineResult ==
    \E inv \in Invocations, returncode \in RunCodes, returnsignal \in RunSignals,
       output \in RunOutputs, isTimeout \in RunTimeouts :
        DetermineResult(inv, returncode, returnsignal, output, isTimeout)

RunVersion ==
    \E executable \in RunExecutables : UltimateVersion(executable)

Next ==
    \/ RunCmdline
    \/ RunDetermineResult
    \/ RunVersion

Spec == Init /\ [][Next]_vars

(***************************************************************************)
(* Properties of the interleaved runs.                                     *)
(***************************************************************************)
\* the last call classified a run whose command line had been built
ClassifiedBuilt ==
    ret.op = "determine_result" /\ ctx[ret.inv].built

\* the dialect an Ultimate request selects: the property-file dialect iff a
\* property file was given and --force-no-wrapper was not
RequestUsesPropertyfile(request) ==
    request.propertyfile # NoneArg /\ ~InList(_OPTION_NO_WRAPPER, request.options)

\* the verdict of the last call had the adapter dispatched on the request
\* of the run it classifies
OwnContextResult ==
    IF tool = "ultimate"
    THEN Ultimate_determine_result(RequestUsesPropertyfile(ctx[ret.inv]),
             ret.returncode, ret.returnsignal, ret.output, ret.isTimeout)
    ELSE Cbmc_determine_result(
             CbmcOptions(ctx[ret.inv].options, ctx[ret.inv].propertyfile),
             getiterator, ret.returncode, ret.returnsignal, ret.output, ret.isTimeout)

\* C1: determine_result for a run dispatches on the context of that run's own
\* cmdline call (Ultimate: the property-file dialect iff the run was built with
\* a property file and without --force-no-wrapper; CBMC: the options that
\* run's cmdline produced), whatever cmdline calls of other runs came between.
C1_OwnContext ==
    (ClassifiedBuilt /\ tool \in {"ultimate", "cbmc"}) => ret.result = OwnContextResult

\* a cmdline call of another run came between a run's cmdline and its
\* determine_result, and the verdict is not the one of the run's own context
C1_Interleaved ==
    /\ ClassifiedBuilt
    /\ tool \in {"ultimate", "cbmc"}
    /\ \E other \in Invocations \ {ret.inv} : ctx[other].built
    /\ ret.result # OwnContextResult

\* the run classified by the last call was built by CBMC in the --xml-ui
\* dialect, ended without a signal, and printed a well-formed document
XmlRun ==
    /\ tool = "cbmc"
    /\ ClassifiedBuilt
    /\ InList("--xml-ui", CbmcOptions(ctx[ret.inv].options, ctx[ret.inv].propertyfile))
    /\ ret.returnsignal = 0
    /\ fromstringlist(ret.output).ok

\* the cprover-status of the document of the last call
XmlStatus ==
    XmlFindText(fromstringlist(ret.output).nodes, 1, "cprover-status")

\* the reason of the first failure of the goto_trace of that document: the
\* text of its reason child, else its reason attribute, else None
XmlFailureReason ==
    LET nodes == fromstringlist(ret.output).nodes
        trace == XmlFind(nodes, 1, "goto_trace")
        failure == IF trace = 0 THEN 0 ELSE XmlFind(nodes, trace, "failure")
        text == IF failure = 0 THEN None ELSE XmlFindText(nodes, failure, "reason")
    IN  IF failure = 0 THEN None
        ELSE IF text # None /\ text # <<>> THEN text
        ELSE nodes[failure].reason

\* C5: in the --xml-ui dialect with signal 0 and a parseable document, status
\* FAILURE with exit code 10 gives UNKNOWN when the failure reason contains
\* "unwinding assertion" and FALSE_REACH otherwise; status SUCCESS with exit
\* code 0 gives TRUE when the options of that run contain
\* --unwinding-assertions and UNKNOWN otherwise.
C5_StatusRefinement ==
    XmlRun =>
      /\ (XmlStatus = <<"FAILURE">> /\ ret.returncode = 10) =>
            ret.result = (IF XmlFailureReason # None
                             /\ Contains(XmlFailureReason, <<"unwinding assertion">>)
                          THEN RESULT_UNKNOWN ELSE RESULT_FALSE_REACH)
      /\ (XmlStatus = <<"SUCCESS">> /\ ret.returncode = 0) =>
            ret.result = (IF InList("--unwinding-assertions", ctx[ret.inv].options)
                          THEN RESULT_TRUE_PROP ELSE RESULT_UNKNOWN)

\* C8: a vector cmdline returns has no empty string and no None element
C8_NoEmptyArgument ==
    (ret.op = "cmdline" /\ ~IsRaised(ret.result)) =>
      \A i \in 1..Len(ret.result) : ret.result[i] # "" /\ ret.result[i] # NoneArg

(***************************************************************************)
(* SpecClassify: one run of the harness on one adapter: at most one        *)
(* command line built for it, then its outcome classified, the outcome     *)
(* drawn from the lines the tool can print.                                *)
(***************************************************************************)
\* the longest captured output, in lines
MaxLines == 2

\* all sequences over S of length at most n
SeqsUpTo(S, n) ==
    UNION { [1..k -> S] : k \in 0..n }

\* further documents of CBMC, each on one line: a failure with a reason
\* child, a failure that carries no reason, an error message, a document
\* with an empty tag, and a document cut off by the timeout
LineFailureReason ==
    <<"<cprover>", "<goto_trace>", "<failure>", "<reason>", "assertion x",
      "</reason>", "</failure>", "</goto_trace>",
      "<cprover-status>", "FAILURE", "</cprover-status>", "</cprover>">>
LineFailureBare ==
    <<"<cprover>", "<goto_trace>", "<failure>", "</failure>", "</goto_trace>",
      "<cprover-status>", "FAILURE", "</cprover-status>", "</cprover>">>
LineErrorMessage ==
    <<"<cprover>", "<message type=\"ERROR\">", "<text>", "Out of memory", "</text>",
      "</message>", "</cprover>">>
LineEmptyTag ==
    <<"<cprover>", "<>", "</>", "<cprover-status>", "SUCCESS", "</cprover-status>",
      "</cprover>">>
LineTruncated ==
    <<"<cprover>", "<cprover-status>", "SUCC", "<">>

\* the lines each tool prints
ClassifyLines(t) ==
    CASE t = "cbmc" ->
           { <<"TRUE", "\n">>, <<"FALSE", "(valid-free)", "\n">>,
             <<"x ", "FALSE", "(valid-deref)", "\n">>, <<"\n">>,
             DocUnwinding[1], DocUnwinding[2], LineFailureReason, LineFailureBare,
             LineErrorMessage, LineEmptyTag, LineTruncated }
      [] t = "esbmc" ->
           { <<"FALSE", "_DEREF">>, <<"FALSE", "_FREE">>, <<"x ", "FALSE">>, <<"TRUE">>,
             <<"DONE">>, <<"x ", "error">>, <<>> }
      [] t = "map2check" ->
           { <<"TRUE", "\n">>, <<"FALSE", "(valid-free)", "\n">>, <<"FALSE", "_FREE", "\n">>,
             <<"x ", "FALSE", "(valid-deref)">>, <<"FALSE">>, <<"UNKNOWN">>, <<"\n">> }
      [] t = "two_ls" ->
           { <<"TRUE", "\n">>, <<"FALSE", "(valid-free)", "\n">>,
             <<"x ", "FALSE", "(valid-deref)", "\n">>, <<"FALSE">>, <<"\n">> }
      [] t = "ultimate" ->
           { <<"TRUE", "\n">>, <<"FALSE", "(valid-free)", "\n">>, <<"FALSE", "\n">>,
             <<"\n">>,
             <<"Ultimate proved your program to be incorrect", "!">>,
             <<" - ", "pointer dereference may fail">>,
             <<"Ultimate proved your program to be incorrect", ": ",
               "pointer dereference may fail">>,
             <<"Ultimate proved your program to be correct", "!">> }

ClassifyOutputs(t) == SeqsUpTo(ClassifyLines(t), MaxLines)
ClassifyCodes == {0, 10, 6}
ClassifySignals == {0, 9, 15}
ClassifyOptions == { <<>>, <<"--unwinding-assertions">> }
ClassifyPropertyfiles == {NoneArg, "p.prp"}

\* cmdline for the run, once
ClassifyCmdline ==
    /\ ret.op # "determine_result"
    /\ ~ctx[1].built
    /\ \E options \in ClassifyOptions, propertyfile \in ClassifyPropertyfiles :
         Cmdline(1, E_NEW, options, <<"a.c">>, propertyfile, NoLimits)

\* determine_result for the run, once
ClassifyDetermineResult ==
    /\ ret.op # "determine_result"
    /\ \E returncode \in ClassifyCodes, returnsignal \in ClassifySignals,
          output \in ClassifyOutputs(tool), isTimeout \in BOOLEAN :
         DetermineResult(1, returncode, returnsignal, output, isTimeout)

NextClassify ==
    \/ ClassifyCmdline
    \/ ClassifyDetermineResult

SpecClassify == Init /\ [][NextClassify]_vars

(***************************************************************************)
(* Properties of classification.                                           *)
(***************************************************************************)
\* C2: determine_result returns a verdict or diagnostic string for every exit
\* code, signal, output and timeout flag, in every adapter state (also before
\* any cmdline call); it never raises.
C2_Total ==
    ret.op = "determine_result" => ~IsRaised(ret.result)

\* the last call classified a run in the dialect the adapter holds: CBMC's
\* line dialect, CBMC's --xml-ui dialect
CbmcLineDialect ==
    tool = "cbmc" /\ self_options # Unset /\ ~InList("--xml-ui", self_options)
CbmcXmlDialect ==
    tool = "cbmc" /\ self_options # Unset /\ InList("--xml-ui", self_options)

\* the last line of the output of the last call, stripped ("" for no output)
LastLine ==
    IF ret.output = <<>> THEN <<>> ELSE Strip(ret.output[Len(ret.output)])

\* the first line of the output on which Ultimate's loop returns
FirstDecidingLine(uses_pf, output) ==
    LET decides(line) == IF uses_pf THEN WithPropertyfileLine(line) # None
                         ELSE WithoutPropertyfileLine(line) # None
        hits == {i \in 1..Len(output) : decides(output[i])}
    IN  IF hits = {} THEN <<>>
        ELSE output[CHOOSE i \in hits : \A j \in hits : i <= j]

\* the text on which the verdict of the last call is decided ("" when the
\* verdict is decided by the exit code or the signal alone)
DecidedText ==
    CASE tool = "cbmc" ->
           IF CbmcLineDialect /\ ret.returnsignal = 0 /\ ret.returncode \in {0, 10}
           THEN LastLine ELSE <<>>
      [] tool = "two_ls" ->
           IF ret.returnsignal = 0 /\ ret.returncode = 10 THEN LastLine ELSE <<>>
      [] tool = "map2check" -> LastLine
      [] tool = "esbmc" -> JoinLines(ret.output)
      [] tool = "ultimate" -> FirstDecidingLine(self_uses_propertyfile, ret.output)

\* the specific falsification markers of the dialect of the last call, each
\* with the generic marker it specializes
SpecificMarkers ==
    CASE tool \in {"cbmc", "two_ls"} \/ (tool = "map2check" /\ wrapper_version = 6)
           \/ (tool = "ultimate" /\ self_uses_propertyfile) ->
           { <<"FALSE", "(valid-memtrack)">>, <<"FALSE", "(valid-deref)">>,
             <<"FALSE", "(valid-free)">> }
      [] tool = "esbmc" \/ tool = "map2check" ->
           { <<"FALSE", "_MEMTRACK">>, <<"FALSE", "_DEREF">>, <<"FALSE", "_FREE">>,
             <<"FALSE", "_OVERFLOW">> }
      [] OTHER ->
           { <<"pointer dereference may fail">>, <<"array index can be out of bounds">>,
             <<"free of unallocated memory possible">>,
             <<"not all allocated memory was freed">>, <<"overflow possible">> }
GenericMarker ==
    IF tool = "ultimate" /\ ~self_uses_propertyfile
    THEN <<"Ultimate proved your program to be incorrect">>
    ELSE <<"FALSE">>

\* C3: when the text on which the verdict is decided contains a specific
\* falsification marker together with the generic marker it specializes, the
\* verdict is not FALSE_REACH, whatever other text surrounds the markers.
C3_Specificity ==
    ( /\ ret.op = "determine_result"
      /\ Contains(DecidedText, GenericMarker)
      /\ \E m \in SpecificMarkers : Contains(DecidedText, m) )
    => ret.result # RESULT_FALSE_REACH

\* C4: in CBMC's --xml-ui dialect, a timeout whose output is no well-formed
\* document is classified TIMEOUT, for every exit code and every signal.
C4_TimeoutUnparseable ==
    ( /\ ret.op = "determine_result"
      /\ CbmcXmlDialect
      /\ ret.isTimeout
      /\ ~fromstringlist([i \in 1..Len(ret.output) |-> sanitizeXML(ret.output[i])]).ok )
    => ret.result = <<"TIMEOUT">>

\* the last call classified a run in a verdict-line dialect that ended
\* without a signal
VerdictLineRun ==
    /\ ret.op = "determine_result"
    /\ ret.returnsignal = 0
    /\ \/ tool = "cbmc" /\ self_options # Unset /\ InList("--propertyfile", self_options)
       \/ tool \in {"two_ls", "map2check"}
       \/ tool = "ultimate" /\ self_uses_propertyfile

\* the last line of output that is not empty once stripped ("" when none)
RECURSIVE LastNonEmpty(_)
LastNonEmpty(output) ==
    IF output = <<>> THEN <<>>
    ELSE IF Strip(output[Len(output)]) # <<>> THEN Strip(output[Len(output)])
    ELSE LastNonEmpty(SubSeq(output, 1, Len(output) - 1))

\* C6: in a verdict-line dialect with signal 0, a last non-empty line TRUE
\* gives TRUE and a last non-empty line FALSE(valid-free) gives FALSE_FREE,
\* whatever lines precede it and whether or not empty lines follow it.
C6_LastVerdictLine ==
    VerdictLineRun =>
      /\ LastNonEmpty(ret.output) = <<"TRUE">> => ret.result = RESULT_TRUE_PROP
      /\ LastNonEmpty(ret.output) = <<"FALSE", "(valid-free)">>
           => ret.result = RESULT_FALSE_FREE

(***************************************************************************)
(* SpecAllInText: allInText applied once to a list of words and a text.    *)
(***************************************************************************)
\* the longest list of words and the longest text, in atoms
MaxWords == 3
MaxText == 3

Alphabet == {"a", "b"}
AllWords == SeqsUpTo(Alphabet, 2) \ { <<>> }
AllTexts == SeqsUpTo(Alphabet, MaxText)

AllInTextCall ==
    /\ ret.op # "allInText"
    /\ \E words \in SeqsUpTo(AllWords, MaxWords), text \in AllTexts :
         EsbmcAllInText(words, text)

InitAllInText == Constructed("esbmc", {StandardJava})

NextAllInText == AllInTextCall

SpecAllInText == InitAllInText /\ [][NextAllInText]_vars

\* the words occur in text in the given order, each at or after the end of
\* the match of the one before, the first at or after index from
RECURSIVE OccurInOrder(_, _, _)
OccurInOrder(words, text, from) ==
    IF words = <<>> THEN TRUE
    ELSE \E i \in from..Len(text) :
           /\ IsAt(text, Head(words), i)
           /\ OccurInOrder(Tail(words), text, i + Len(Head(words)))

\* C7: allInText(words, text) is true exactly when the words occur in the text
\* in the given order as non-overlapping occurrences.
C7_AllInText ==
    ret.op = "allInText" => (ret.result <=> OccurInOrder(ret.words, ret.text, 0))

(***************************************************************************)
(* SpecNegotiate: version and cmdline calls on one Ultimate adapter, for   *)
(* the installations of Executables, on the machines of JavaEnvs.          *)
(***************************************************************************)
\* the requests: options, property file and limits of each
Request(options, propertyfile, rlimits) ==
    [options |-> options, propertyfile |-> propertyfile, rlimits |-> rlimits]
MemLimit == [k \in {MEMLIMIT} |-> 1000]
NegotiateRequests ==
    { Request(<<>>, NoneArg, NoLimits),
      Request(<<>>, "p.prp", NoLimits),
      Request(<<"--full-output">>, "p.prp", MemLimit),
      Request(<<"-tc", "t.xml">>, NoneArg, NoLimits),
      Request(<<"-tc", "t.xml">>, NoneArg, MemLimit),
      Request(<<"-ea", "-tc", "t.xml", "-ultimatedata", "d">>, NoneArg, NoLimits),
      Request(<<_OPTION_NO_WRAPPER, "-tc", "t.xml">>, "p.prp", NoLimits),
      Request(<<_OPTION_NO_WRAPPER>>, "p.prp", NoLimits) }

\* the installations the calls are made for
NegotiateExecutables == {E_NEW, E_OLD, E_LEGACY, E_NOJAR, E_BROKEN}

NegotiateVersion ==
    \E executable \in NegotiateExecutables : UltimateVersion(executable)

NegotiateCmdline ==
    \E executable \in NegotiateExecutables, request \in NegotiateRequests :
         UltimateCmdline(1, executable, request.options, <<"a.c">>,
                         request.propertyfile, request.rlimits)

InitNegotiate == Constructed("ultimate", JavaEnvs)

NextNegotiate ==
    \/ NegotiateVersion
    \/ NegotiateCmdline

SpecNegotiate == InitNegotiate /\ [][NextNegotiate]_vars

\* the call recorded in r is a negotiation: version, or cmdline (which
\* starts with one)
IsNegotiation(r) ==
    r.op \in {"version", "cmdline"}

\* the two calls are the same request
SameRequest(r1, r2) ==
    /\ r1.op = r2.op
    /\ r1.op = "cmdline" =>
         /\ r1.options = r2.options
         /\ r1.tasks = r2.tasks
         /\ r1.propertyfile = r2.propertyfile
         /\ r1.rlimits = r2.rlimits

\* one step: a negotiation for an executable right after one for the same
\* executable
SecondNegotiation ==
    /\ IsNegotiation(ret) /\ IsNegotiation(ret')
    /\ ret'.executable = ret.executable

\* the negotiation of the call recorded in ret returned: version(executable)
\* has a value in its cache
Negotiated ==
    version_cache[ret.executable] # None

C10_NoLauncher ==
    (IsNegotiation(ret) /\ LauncherJarFrom(ret.executable, 1) = NoneArg)
    => ret.result = Raised("FileNotFoundError")

(***************************************************************************)
(* The exit-code/signal gate.                                              *)
(***************************************************************************)
\* the verdict of the gate for a nonzero signal
SignalGate(returnsignal, isTimeout) ==
    IF returnsignal \in {9, 15} /\ isTimeout THEN <<"TIMEOUT">>
    ELSE IF returnsignal = 9 THEN <<"OUT OF MEMORY">>
    ELSE <<"ERROR(SIGNAL ", ToString(returnsignal), ")">>

\* C11: in every adapter, a run that ended on a nonzero signal gets the
\* verdict of the signal gate (TIMEOUT, OUT OF MEMORY or ERROR(SIGNAL N)),
\* never a verdict read from the output text.
C11_SignalGate ==
    (ret.op = "determine_result" /\ ret.returnsignal # 0)
    => ret.result = SignalGate(ret.returnsignal, ret.isTimeout)

\* a run killed by a signal was classified by the gate of 2LS
C11_GateApplied ==
    /\ ret.op = "determine_result" /\ tool = "two_ls"
    /\ ret.returnsignal = 15 /\ ~ret.isTimeout
    /\ ret.result = SignalGate(15, FALSE)

(***************************************************************************)
(* SpecRequiresData: _requires_ultimate_data applied once to the version   *)
(* string of a non-legacy installation.                                    *)
(***************************************************************************)
\* the largest major, minor and patch number of the versions considered
MaxMajor == 1
MaxMinor == 2
MaxPatch == 25

\* the string version() returns for Ultimate major.minor.patch behind the
\* wrapper 1dbac8bc
VersionString(major, minor, patch) ==
    <<ToString(major), ".", ToString(minor), ".", ToString(patch), "-", "1dbac8bc">>

\* _requires_ultimate_data on an installation whose version() is
\* major.minor.patch-1dbac8bc
RequiresDataCall ==
    /\ ret.op # "_requires_ultimate_data"
    /\ \E major \in 0..MaxMajor, minor \in 0..MaxMinor, patch \in 0..MaxPatch :
         \E r \in {RequiresDataOf(VersionString(major, minor, patch))} :
           ret' = [op |-> "_requires_ultimate_data", major |-> major, minor |-> minor,
                   patch |-> patch, result |-> r.val, exc |-> r.exc]
    /\ UNCHANGED <<env, ultimate, self_options, ctx>>

InitRequiresData == Constructed("ultimate", {StandardJava})

NextRequiresData == RequiresDataCall

SpecRequiresData == InitRequiresData /\ [][NextRequiresData]_vars

\* major.minor.patch is 0.1.24 or later in major.minor.patch ordering
AtLeast_0_1_24(major, minor, patch) ==
    \/ major > 0
    \/ major = 0 /\ minor > 1
    \/ major = 0 /\ minor = 1 /\ patch >= 24

\* C12: for a non-legacy version major.minor.patch, _requires_ultimate_data
\* is true exactly when the version is 0.1.24 or later in major.minor.patch
\* ordering.
C12_RequiresData ==
    ret.op = "_requires_ultimate_data"
    => /\ ret.exc = ""
       /\ ret.result = AtLeast_0_1_24(ret.major, ret.minor, ret.patch)

\* the threshold version itself was classified as requiring the data
\* directory
C12_AtThreshold ==
    /\ ret.op = "_requires_ultimate_data"
    /\ ret.major = 0 /\ ret.minor = 1 /\ ret.patch = 24
    /\ ret.result = TRUE

(***************************************************************************)
(* Requests that match none of the three modes.                            *)
(***************************************************************************)
\* the last call was cmdline on a request without a property file (none
\* given, or cancelled by --force-no-wrapper) and without a toolchain option,
\* for an executable whose version was negotiated
NoModeRequest ==
    /\ ret.op = "cmdline"
    /\ version_cache[ret.executable] # None
    /\ ret.propertyfile = NoneArg \/ InList(_OPTION_NO_WRAPPER, ret.options)
    /\ ~InList("-tc", ret.options)
    /\ ~InList("--toolchain", ret.options)

\* C13: cmdline on a request with no property file and no toolchain option
\* fails with UnsupportedFeatureException, for every negotiated version,
\* legacy versions included.
C13_UnsupportedInvocation ==
    NoModeRequest => ret.result = Raised("UnsupportedFeatureException")

\* such a request was refused with the named error on a current installation
C13_Refused ==
    /\ NoModeRequest
    /\ ret.executable = E_NEW
    /\ ret.result = Raised("UnsupportedFeatureException")

(***************************************************************************)
(* Terminal status against exit code in the --xml-ui dialect.              *)
(***************************************************************************)
\* the document parse_XML builds from the output of the last call
ParsedDocument ==
    fromstringlist([i \in 1..Len(ret.output) |-> sanitizeXML(ret.output[i])])

\* the last call classified, in the --xml-ui dialect, a well-formed document
\* whose terminal status disagrees with the exit code
StatusMismatch ==
    /\ ret.op = "determine_result"
    /\ CbmcXmlDialect
    /\ ParsedDocument.ok
    /\ LET status == XmlFindText(ParsedDocument.nodes, 1, "cprover-status")
       IN  \/ status = <<"SUCCESS">> /\ ret.returncode = 10
           \/ status = <<"FAILURE">> /\ ret.returncode = 0

\* the verdicts of unparsable output, and the verdicts derived from a status
UnparsableVerdicts ==
    { <<"INVALID OUTPUT">>, <<"TIMEOUT">>, <<"OUT OF MEMORY">> }
StatusVerdicts ==
    { RESULT_TRUE_PROP, RESULT_FALSE_REACH, RESULT_FALSE_DEREF, RESULT_FALSE_FREE,
      RESULT_FALSE_MEMTRACK, RESULT_FALSE_MEMCLEANUP, RESULT_FALSE_OVERFLOW,
      RESULT_FALSE_TERMINATION, RESULT_UNKNOWN }

\* C14: in the --xml-ui dialect, a terminal status that disagrees with the
\* exit code (SUCCESS with 10, FAILURE with 0) gives a verdict that is neither
\* one of the verdicts of unparsable output nor a verdict derived from the
\* status.
C14_StatusMismatch ==
    StatusMismatch => ret.result \notin (UnparsableVerdicts \cup StatusVerdicts)

\* a document whose status disagrees with the exit code was classified by
\* parse_XML
C14_Mismatched ==
    StatusMismatch /\ ret.returnsignal = 0 /\ ret.result \in UnparsableVerdicts

(***************************************************************************)
(* The closed taxonomy of verdicts.                                        *)
(***************************************************************************)
\* the canonical verdicts and the fixed diagnostic strings
CanonicalVerdicts ==
    { RESULT_TRUE_PROP, RESULT_FALSE_REACH, RESULT_FALSE_DEREF, RESULT_FALSE_FREE,
      RESULT_FALSE_MEMTRACK, RESULT_FALSE_MEMCLEANUP, RESULT_FALSE_OVERFLOW,
      RESULT_FALSE_TERMINATION, RESULT_UNKNOWN }
DiagnosticVerdicts ==
    { <<"TIMEOUT">>, <<"OUT OF MEMORY">>, <<"INVALID OUTPUT">>, <<"INVALID ARGUMENTS">> }

\* the atoms that begin with ERROR: a string that starts with one of them is
\* ERROR with optional detail
ErrorAtoms ==
    { "ERROR", "ERROR (", "ERROR(SIGNAL ", "ERROR: UNSUPPORTED SYNTAX",
      "ERROR: INCORRECT SYNTAX", "ERROR: TYPE ERROR", "ERROR: INVALID WITNESS FILE",
      "ERROR: EXCEPTION" }

InTaxonomy(status) ==
    \/ status \in CanonicalVerdicts
    \/ status \in DiagnosticVerdicts
    \/ status # <<>> /\ status[1] \in ErrorAtoms

\* C15: every value determine_result returns, in any adapter and for any
\* input, is a canonical verdict, one of the diagnostic strings TIMEOUT,
\* OUT OF MEMORY, INVALID OUTPUT, INVALID ARGUMENTS, or ERROR with optional
\* detail.
C15_ClosedTaxonomy ==
    (ret.op = "determine_result" /\ ~IsRaised(ret.result)) => InTaxonomy(ret.result)

\* an ERROR with detail was returned
C15_ErrorWithDetail ==
    /\ ret.op = "determine_result"
    /\ Len(ret.result) > 1 /\ ret.result[1] \in ErrorAtoms

(***************************************************************************)
(* SpecRepeat: cmdline called on one Ultimate adapter for a request, and   *)
(* then once more with the same executable, options list object, tasks,    *)
(* property file and limits.                                               *)
(***************************************************************************)
RepeatRequests ==
    { Request(<<>>, "p.prp", NoLimits),
      Request(<<"--full-output">>, "p.prp", MemLimit),
      Request(<<"-tc", "t.xml">>, NoneArg, MemLimit),
      Request(<<"-ea", "-tc", "t.xml">>, NoneArg, NoLimits),
      Request(<<_OPTION_NO_WRAPPER, "-tc", "t.xml">>, "p.prp", NoLimits),
      Request(<<_OPTION_NO_WRAPPER, _OPTION_NO_WRAPPER, "-tc", "t.xml">>, "p.prp", NoLimits),
      Request(<<_OPTION_NO_WRAPPER>>, NoneArg, NoLimits) }
RepeatTasks == { <<>>, <<"a.c">> }

\* the first call, with a fresh options list
FirstCmdline ==
    /\ ret.op # "cmdline"
    /\ \E executable \in Executables, request \in RepeatRequests, tasks \in RepeatTasks :
         UltimateCmdline(1, executable, request.options, tasks,
                         request.propertyfile, request.rlimits)

\* the second call, with the objects of the first: the options list is the
\* one the first call left behind
SecondCmdline ==
    /\ ret.op = "cmdline" /\ ret.inv = 1
    /\ UltimateCmdline(2, ret.executable, ret.options_after, ret.tasks,
                       ret.propertyfile, ret.rlimits)

InitRepeat == Constructed("ultimate", {StandardJava})

NextRepeat ==
    \/ FirstCmdline
    \/ SecondCmdline

SpecRepeat == InitRepeat /\ [][NextRepeat]_vars

\* C16: cmdline leaves the caller's options list as it was, and a second call
\* with the same executable, options list object, tasks, property file and
\* limits returns what the first call returned.
C16_Pure ==
    [][ ret'.op = "cmdline" =>
          /\ ret'.options_after = ret'.options
          /\ (ret.op = "cmdline" /\ ret'.inv = 2) => ret'.result = ret.result
      ]_vars

\* a second call returned the vector of the first
C16_Repeated ==
    /\ ret.op = "cmdline" /\ ret.inv = 2
    /\ ~IsRaised(ret.result)
    /\ ctx[1].built /\ ctx[2].built
    /\ InList("-jar", ret.result)

(***************************************************************************)
(* The API generation cmdline consults.                                    *)
(***************************************************************************)
\* the generation at which the negotiation of executable succeeds: the
\* highest one whose probe prints a version (0 when none does)
OwnApi(executable) ==
    LET ok == {api \in 1..NumApis : _query_ultimate_version(executable, api) # <<>>}
    IN  IF ok = {} THEN 0 ELSE CHOOSE api \in ok : \A other \in ok : other <= api

\* the last call was a direct-mode cmdline that reached the data-directory
\* arguments and read self.api there: no property file in effect, a toolchain
\* option, no -data option, and a negotiated version that is not a legacy one
ConsultsApi ==
    /\ ret.op = "cmdline"
    /\ ret.propertyfile = NoneArg \/ InList(_OPTION_NO_WRAPPER, ret.options)
    /\ InList("-tc", ret.options_after) \/ InList("--toolchain", ret.options_after)
    /\ ~InList("-data", ret.options_after)
    /\ version_cache[ret.executable] # None
    /\ version_cache[ret.executable] \notin _SVCOMP17_VERSIONS

\* C17: whatever version and cmdline calls were made before, for whatever
\* executables, the API generation a direct-mode cmdline for executable E
\* consults is the one at which E's own negotiation succeeded.
C17_OwnApi ==
    ConsultsApi => self_api = OwnApi(ret.executable)

\* a direct-mode cmdline for the older installation consulted its own
\* generation after the newer installation had been negotiated
C17_AfterOther ==
    /\ ConsultsApi
    /\ ret.executable = E_OLD
    /\ version_cache[E_NEW] # None
    /\ self_api = 1
    /\ ~IsRaised(ret.result)

(***************************************************************************)
(* SpecProbe: version and cmdline calls on one Ultimate adapter for the    *)
(* installations that ship a launcher jar, whose version probes succeed    *)
(* or fail in each of the ways _query_ultimate_version distinguishes.      *)
(***************************************************************************)
ProbeExecutables == {E_NEW, E_OLD, E_BROKEN, E_NOISY}
ProbeRequests ==
    { Request(<<"-tc", "t.xml">>, NoneArg, NoLimits),
      Request(<<>>, "p.prp", NoLimits) }

ProbeVersion ==
    \E executable \in ProbeExecutables : UltimateVersion(executable)

ProbeCmdline ==
    \E executable \in ProbeExecutables, request \in ProbeRequests :
         UltimateCmdline(1, executable, request.options, <<"a.c">>,
                         request.propertyfile, request.rlimits)

InitProbe == Constructed("ultimate", JavaEnvs)

NextProbe ==
    \/ ProbeVersion
    \/ ProbeCmdline

SpecProbe == InitProbe /\ [][NextProbe]_vars

\* the probe of generation api of executable succeeds: it is spawned, exits
\* with 0, writes nothing to stderr and prints a line "Version is ..."
ProbeSucceeds(executable, api) ==
    LET process == ProbeRun(executable, api)
    IN  /\ process.spawned
        /\ process.returncode = 0
        /\ ~process.stderr
        /\ \E i \in 1..Len(process.stdout) :
              /\ StartsWith(process.stdout[i], <<"Version is ">>)
              /\ Len(process.stdout[i]) > 1

\* the version that probe prints: what follows "Version is " on the first
\* such line
ProbedVersion(executable, api) ==
    LET stdout == ProbeRun(executable, api).stdout
        first == CHOOSE i \in 1..Len(stdout) :
                   /\ StartsWith(stdout[i], <<"Version is ">>)
                   /\ \A j \in 1..(i - 1) : ~StartsWith(stdout[j], <<"Version is ">>)
    IN  SubSeq(stdout[first], 2, Len(stdout[first]))

\* the generations whose probe succeeds, and the highest of them
Supported(executable) ==
    {api \in 1..NumApis : ProbeSucceeds(executable, api)}
Highest(executable) ==
    CHOOSE api \in Supported(executable) : \A other \in Supported(executable) : other <= api

\* the generations probed by the last call, in the order of the probes
RECURSIVE GenerationsProbed(_)
GenerationsProbed(probes) ==
    IF probes = <<>> THEN <<>>
    ELSE IF Head(probes)[1] = "ultimate --version"
      THEN <<Head(probes)[2]>> \o GenerationsProbed(Tail(probes))
    ELSE GenerationsProbed(Tail(probes))

\* the generations from NumApis down to lowest, as the probes name them
Descending(lowest) ==
    [i \in 1..(NumApis - lowest + 1) |-> ToString(NumApis + 1 - i)]

\* C18: a negotiation that probes does so in descending order of generation
\* and goes on to the next older generation after each failed probe.  When
\* some probe succeeds it stops there, and the recorded generation and version
\* are those of the highest generation whose probe succeeds; when every probe
\* fails it raises and records no version.
C18_ProbeOrder ==
    (IsNegotiation(ret) /\ GenerationsProbed(ret.probes) # <<>>) =>
       IF Supported(ret.executable) # {}
       THEN /\ GenerationsProbed(ret.probes) = Descending(Highest(ret.executable))
            /\ self_api = Highest(ret.executable)
            /\ version_cache[ret.executable] =
                  ProbedVersion(ret.executable, Highest(ret.executable))
                  \o <<"-">> \o _version_from_tool(ret.executable)
            /\ ret.op = "version" => ret.result = version_cache[ret.executable]
       ELSE /\ GenerationsProbed(ret.probes) = Descending(1)
            /\ ret.result = Raised("BenchExecException")
            /\ version_cache[ret.executable] = None

\* a negotiation fell back from generation 2, whose probe printed a version
\* but also wrote to stderr, to generation 1
C18_FellBack ==
    /\ ret.op = "version" /\ ret.executable = E_NOISY
    /\ GenerationsProbed(ret.probes) = <<"2", "1">>
    /\ self_api = 1
    /\ ~IsRaised(ret.result)

=============================================================================
